---- MODULE Spec2Model ----
(***************************************************************************)
(* A model of the agents-api task engine pieces of julep:                  *)
(*   - activities/task_steps/prompt_step.py : format_tool, prompt_step     *)
(*   - autogen/openapi_model.py : type_property, the task validators,      *)
(*     CreateTaskRequest.validate_task_request, CreateTransitionRequest    *)
(*   - autogen/Executions.py : Transition                                  *)
(*                                                                         *)
(* Python values are tagged records [t |-> <type name>, v |-> <value>] so  *)
(* that isinstance() is a test of the tag.  A Python str on which the code *)
(* does string work (lower, startswith, slicing, strip) is a sequence of   *)
(* one-character strings; other strings are TLA+ strings.                  *)
(***************************************************************************)
EXTENDS Integers, Sequences, FiniteSets, TLC

VARIABLES
    type_is_field,   \* whether autogen.Tools.Tool declares `type` as a field
    debug,           \* env.debug
    context,         \* the StepContext handed to prompt_step
    pc,              \* position of prompt_step
    prompt,          \* local `prompt` of prompt_step
    applied,         \* which of base_evaluate / render_template ran, and
                     \* what base_evaluate returned
    formatted_tools, \* local `formatted_tools` (as built at line 224)
    tools_mapping,   \* local `tools_mapping`
    request,         \* the backend call made, if any
    claude_response, \* local `claude_response` (the BetaMessage received)
    response,        \* local `response` (the normalized ModelResponse)
    outcome,         \* what prompt_step returned or raised
    task,            \* the task definition handed to CreateTaskRequest
    task_result,     \* what constructing the CreateTaskRequest gave
    transitions,     \* the transition records created so far
    last_create,     \* the last CreateTransitionRequest(...) and what it gave
    history,         \* the transition log of one execution
    ops,             \* how many facade operations the execution was given
    last_op,         \* the last facade operation and what it returned
    temporal_env,    \* env.temporal_schedule_to_close_timeout and
                     \* env.temporal_heartbeat_timeout
    summarization_run \* one run of SummarizationWorkflow: its position, the
                     \* activity calls it issued, the activity, its result

prompt_vars == <<type_is_field, debug, context, pc, prompt, applied,
                 formatted_tools, tools_mapping, request, claude_response,
                 response, outcome>>

task_vars == <<task, task_result>>

transition_vars == <<transitions, last_create>>

execution_vars == <<history, ops, last_op>>

workflow_vars == <<temporal_env, summarization_run>>

vars == <<prompt_vars, task_vars, transition_vars, execution_vars, workflow_vars>>

-----------------------------------------------------------------------------
(* Bounds of the model *)

MaxTools == 2      \* length of context.tools
MaxChoices == 2    \* choices in a completion response
MaxCalls == 2      \* tool calls in a completion response
MaxBlocks == 2     \* content blocks in an Anthropic response
MaxSteps == 2      \* steps of a workflow
MaxTransitions == 3 \* transition records created
MaxOps == 6        \* facade operations given to an execution
MaxNativeTools == 3  \* tools of a context on the native-tools path
MaxNativeBlocks == 3 \* content blocks of a reply on the native-tools path

-----------------------------------------------------------------------------
(* Python values *)

None == "None"
PyNone == [t |-> "NoneType", v |-> None]
PyStr(s) == [t |-> "str", v |-> s]
PyList(l) == [t |-> "list", v |-> l]
PyInt(n) == [t |-> "int", v |-> n]
PyDict(d) == [t |-> "dict", v |-> d]

SeqsUpTo(S, n) == UNION {[1..k -> S] : k \in 0..n}

Range(f) == {f[x] : x \in DOMAIN f}

\* {**a, **b}: b's keys win
Overlay(a, b) ==
    [k \in (DOMAIN a) \cup (DOMAIN b) |-> IF k \in DOMAIN b THEN b[k] ELSE a[k]]

\* dict without a key (dict.pop(key, None) / exclude)
Without(d, keys) == [k \in (DOMAIN d) \ keys |-> d[k]]

EmptyDict == [k \in {} |-> None]

UpperCase == <<"A","B","C","D","E","F","G","H","I","J","K","L","M",
               "N","O","P","Q","R","S","T","U","V","W","X","Y","Z">>
LowerCase == <<"a","b","c","d","e","f","g","h","i","j","k","l","m",
               "n","o","p","q","r","s","t","u","v","w","x","y","z">>

\* str.lower()
lower(s) ==
    [i \in 1..Len(s) |->
        IF \E j \in DOMAIN UpperCase : UpperCase[j] = s[i]
        THEN LowerCase[CHOOSE j \in DOMAIN UpperCase : UpperCase[j] = s[i]]
        ELSE s[i]]

\* str.startswith(p)
startswith(s, p) == Len(s) >= Len(p) /\ SubSeq(s, 1, Len(p)) = p

\* str.strip(): drop leading and trailing blanks
RECURSIVE lstrip(_)
lstrip(s) == IF s # <<>> /\ Head(s) = " " THEN lstrip(Tail(s)) ELSE s

RECURSIVE rstrip(_)
rstrip(s) ==
    IF s # <<>> /\ s[Len(s)] = " " THEN rstrip(SubSeq(s, 1, Len(s) - 1)) ELSE s

strip(s) == rstrip(lstrip(s))

-----------------------------------------------------------------------------
(* Tools: autogen.Tools.Tool as the sources use it.  `variant` names the   *)
(* one populated variant field, `def` is its payload, `type` is the value  *)
(* of a declared `type` field.                                             *)

ToolVariants == {"function", "integration", "system", "api_call",
                 "computer_20241022", "bash_20241022", "text_editor_20241022"}

NativeToolTypes == {"computer_20241022", "bash_20241022", "text_editor_20241022"}

\* truthiness of tool.<v>
Has(tool, v) == tool.variant = v

type_property(self) ==
    IF Has(self, "function") THEN "function"
    ELSE IF Has(self, "integration") THEN "integration"
    ELSE IF Has(self, "system") THEN "system"
    ELSE IF Has(self, "api_call") THEN "api_call"
    ELSE None

\* tool.type as prompt_step reads it: openapi_model patches a property onto
\* Tool; a declared field of the same name, stored on the instance, shadows it.
ToolType(tool) == IF type_is_field THEN tool.type ELSE type_property(tool)

-----------------------------------------------------------------------------
(* The tools the model draws context.tools from *)

ComputerDef == [display_width_px |-> 1024, display_height_px |-> 768,
                display_number |-> 1]

MkTool(name, description, variant, def) ==
    [name |-> name, description |-> description, type |-> variant,
     variant |-> variant, def |-> def]

T_calc == MkTool("calc", "adds numbers", "function",
                 [parameters |-> "calc_schema"])
T_search == MkTool("search", None, "integration",
                   [provider |-> "brave", method |-> None])
T_search_fn == MkTool("search", "searches", "function",
                      [parameters |-> "search_schema"])
T_screen == MkTool("screen", None, "computer_20241022", ComputerDef)
T_shell == MkTool("shell", None, "bash_20241022", [name |-> "bash"])
T_docs == MkTool("docs", None, "system",
                 [resource |-> "agent", operation |-> "search"])
T_http == MkTool("http", "calls an api", "api_call",
                 [schema_ |-> "http_schema"])
T_acme == MkTool("acme", None, "integration",
                 [provider |-> "acme", method |-> None])

\* integrations: a multi-method provider with a method of its table and
\* with one outside it, and a known provider that declares no arguments
T_browser == MkTool("browser", None, "integration",
                    [provider |-> "browserbase", method |-> "create_session"])
T_browser_tab == MkTool("tab", None, "integration",
                        [provider |-> "browserbase", method |-> "open_tab"])
T_dummy == MkTool("dummy", "does nothing", "integration",
                  [provider |-> "dummy", method |-> None])

AllTools == {T_calc, T_search, T_search_fn, T_screen, T_shell, T_docs,
             T_http, T_acme}

-----------------------------------------------------------------------------
(* _get_integration_arguments *)

\* providers_map: provider -> the methods it is keyed by (None: the provider
\* maps to one definition class)
SingleProviders == {"brave", "dummy", "email", "spider", "wikipedia",
                    "weather", "remote_browser"}
BrowserbaseMethods == {"create_context", "install_extension_from_github",
                       "list_sessions", "create_session", "get_session",
                       "complete_session", "get_live_urls", "get_connect_url"}

\* providers_map.get(provider), then .get(method) when that is a dict;
\* PyNone when the lookup finds nothing
ProviderLookup(provider, method) ==
    IF provider \in SingleProviders THEN PyStr(<<provider>>)
    ELSE IF provider = "browserbase"
         THEN IF method \in BrowserbaseMethods THEN PyStr(<<provider, method>>)
              ELSE PyNone
    ELSE PyNone

EmptyObjectSchema ==
    [type |-> "object", properties |-> EmptyDict, required |-> <<>>]

\* a raised exception, and a value computed without one
Raised(type, msg, arg) == [raised |-> TRUE, type |-> type, msg |-> msg, arg |-> arg]
Ok(value) == [raised |-> FALSE, value |-> value]

\* for a record that is either a dict of the program or Raised(...)
IsRaised(x) == "raised" \in DOMAIN x

\* integration.arguments of the definition found: the declared argument
\* model, here one required field `query` for brave and none for the others
DeclaredArguments(integration) ==
    IF integration = PyStr(<<"brave">>)
    THEN PyDict([properties |-> [query |-> [type |-> "str", description |-> "query"]],
                 required |-> <<"query">>])
    ELSE PyNone

_get_integration_arguments(tool) ==
    LET integration == ProviderLookup(tool.def.provider, tool.def.method) IN
    IF integration = PyNone
    THEN Raised("AttributeError", "'NoneType' object has no attribute 'arguments'", None)
    ELSE LET arguments == DeclaredArguments(integration) IN
         IF arguments = PyNone THEN EmptyObjectSchema
         ELSE [type |-> "object", properties |-> arguments.v.properties,
               required |-> arguments.v.required]

-----------------------------------------------------------------------------
(* format_tool *)

\* lc_tool.get_input_jsonschema() of the system handler (a collaborator)
SystemJsonSchema(tool) ==
    [description |-> "system handler", resource |-> tool.def.resource,
     operation |-> tool.def.operation]

format_tool(tool) ==
    LET type == ToolType(tool) IN
    IF type = "computer_20241022"
    THEN [type |-> type, name |-> tool.name,
          display_width_px |->
              IF Has(tool, "computer_20241022") THEN tool.def.display_width_px ELSE None,
          display_height_px |->
              IF Has(tool, "computer_20241022") THEN tool.def.display_height_px ELSE None,
          display_number |->
              IF Has(tool, "computer_20241022") THEN tool.def.display_number ELSE None]
    ELSE IF type \in {"bash_20241022", "text_editor_20241022"}
    THEN [type |-> type, name |-> tool.name]
    ELSE IF type = "function"
    THEN [type |-> "function",
          function |-> [name |-> tool.name, description |-> tool.description,
                        parameters |-> IF Has(tool, "function")
                                       THEN tool.def.parameters ELSE None]]
    ELSE IF type = "system"
    THEN [type |-> "function",
          function |-> [name |-> tool.name,
                        description |-> IF tool.description # None
                                        THEN tool.description
                                        ELSE SystemJsonSchema(tool).description,
                        parameters |-> SystemJsonSchema(tool)]]
    ELSE IF type = "integration" /\ Has(tool, "integration")
    THEN LET parameters == _get_integration_arguments(tool) IN
         IF IsRaised(parameters) THEN parameters
         ELSE [type |-> "function",
               function |-> [name |-> tool.name, description |-> tool.description,
                             parameters |-> parameters]]
    ELSE IF type = "api_call" /\ Has(tool, "api_call")
    THEN [type |-> "function",
          function |-> [name |-> tool.name, description |-> tool.description,
                        parameters |-> tool.def.schema_]]
    ELSE [type |-> "function",
          function |-> [name |-> tool.name, description |-> tool.description]]

\* fmt_tool.get("name") or fmt_tool.get("function", {}).get("name")
EmittedName(fmt_tool) ==
    IF "name" \in DOMAIN fmt_tool /\ fmt_tool.name # None THEN fmt_tool.name
    ELSE IF "function" \in DOMAIN fmt_tool THEN fmt_tool.function.name
    ELSE None

-----------------------------------------------------------------------------
(* prompt_step: the prompt *)

EVAL_PROMPT_PREFIX == <<"$", "_", " ">>

COMPUTER_USE_BETA_FLAG == "computer-use-2024-10-22"

should_evaluate_prompt(p) == p.t = "str" /\ startswith(p.v, EVAL_PROMPT_PREFIX)

\* prompt[len(EVAL_PROMPT_PREFIX):].strip()
EvalExpression(p) == strip(SubSeq(p.v, Len(EVAL_PROMPT_PREFIX) + 1, Len(p.v)))

\* WrapPrompt giving the wrapped string the role system
WrapPrompt_as_system(p) ==
    IF p.t = "list" THEN p.v ELSE <<[role |-> "system", content |-> p.v]>>

\* prompt if isinstance(prompt, list) else [{"role": "user", "content": prompt}]
WrapPrompt(p) ==
    IF p.t = "list" THEN p.v ELSE <<[role |-> "user", content |-> p.v]>>

\* the template "{{n}}" and what it renders to against the context data
TemplateText == <<"{", "{", "n", "}", "}">>
RenderedText == <<"7">>

\* common.utils.template.render_template on one string
Render(content) == IF content = TemplateText THEN RenderedText ELSE content

\* render_template(prompt, context_data, skip_vars=["developer_id"])
render_template(messages) ==
    [i \in DOMAIN messages |->
        IF "content" \in DOMAIN messages[i]
        THEN [messages[i] EXCEPT !.content = Render(@)]
        ELSE messages[i]]

\* rendering applied to the evaluated prompt as well
render_always(evaluate, messages) == render_template(messages)

\* if not should_evaluate_prompt: prompt = await render_template(prompt, ...)
render_unless_evaluated(evaluate, messages) ==
    IF ~evaluate THEN render_template(messages) ELSE messages

-----------------------------------------------------------------------------
(* prompt_step: settings *)

GPT_4O == <<"g", "p", "t", "-", "4", "o">>

\* agent.model if agent.model else "gpt-4o"
agent_model(ctx) == IF ctx.agent.model.t = "str" /\ ctx.agent.model.v # <<>>
                    THEN ctx.agent.model.v ELSE GPT_4O

\* agent.default_settings.model_dump() if agent.default_settings else {}
agent_default_settings(ctx) ==
    IF ctx.agent.default_settings.t = "dict" THEN ctx.agent.default_settings.v
    ELSE EmptyDict

excluded_keys == {"prompt", "kind_", "label", "unwrap", "auto_run_tools",
                  "disable_cache", "tools"}

\* bool(x) of a setting value
Truthy(x) == x \notin {None, ""}

\* current_step.model_dump(exclude=excluded_keys, exclude_unset=True), then
\* .update(.pop("settings", {})), then tool_choice dropped without tools
passed_settings(ctx) ==
    LET dumped == Without(ctx.current_step.set_fields, excluded_keys)
        settings == IF "settings" \in DOMAIN dumped THEN dumped.settings
                    ELSE PyDict(EmptyDict)
    IN  IF settings.t # "dict"
        THEN Raised("TypeError", "'NoneType' object is not iterable", None)
        ELSE LET merged == Overlay(Without(dumped, {"settings"}), settings.v) IN
             Ok(IF "tools" \in DOMAIN merged /\ Truthy(merged["tools"])
                THEN merged
                ELSE Without(merged, {"tool_choice"}))

-----------------------------------------------------------------------------
(* prompt_step: tools and backend *)

\* {emitted name: orig_tool for fmt_tool, orig_tool in zip(...)}: a later
\* tool of the same emitted name replaces an earlier one
tools_mapping_of(fmt_tools, tools) ==
    [n \in {EmittedName(fmt_tools[i]) : i \in DOMAIN fmt_tools} |->
        tools[CHOOSE i \in DOMAIN fmt_tools :
                 /\ EmittedName(fmt_tools[i]) = n
                 /\ \A j \in DOMAIN fmt_tools :
                        EmittedName(fmt_tools[j]) = n => j <= i]]

CLAUDE_3_5 == <<"c", "l", "a", "u", "d", "e", "-", "3", ".", "5">>

\* is_anthropic without .lower()
is_anthropic_case_sensitive(model, fmt_tools) ==
    /\ startswith(model, CLAUDE_3_5)
    /\ \E i \in DOMAIN fmt_tools : fmt_tools[i].type \in NativeToolTypes

\* agent_model.lower().startswith("claude-3.5") and any(tool["type"] in [...])
is_anthropic(model, fmt_tools) ==
    /\ startswith(lower(model), CLAUDE_3_5)
    /\ \E i \in DOMAIN fmt_tools : fmt_tools[i].type \in NativeToolTypes

\* [{"role": "user", "content": message["content"]} for message in prompt]
anthropic_messages(messages) ==
    IF \E i \in DOMAIN messages : "content" \notin DOMAIN messages[i]
    THEN Raised("TypeError", "message has no content", None)
    ELSE Ok([i \in DOMAIN messages |->
                [role |-> "user", content |-> messages[i].content]])

\* filtered_tools without the filter
filtered_tools_unfiltered(fmt_tools) == fmt_tools

\* [tool for tool in formatted_tools if tool["type"] in [...]]
RECURSIVE filtered_tools(_)
filtered_tools(fmt_tools) ==
    IF fmt_tools = <<>> THEN <<>>
    ELSE IF Head(fmt_tools).type \in NativeToolTypes
         THEN <<Head(fmt_tools)>> \o filtered_tools(Tail(fmt_tools))
         ELSE filtered_tools(Tail(fmt_tools))

anthropic_request(messages, fmt_tools) ==
    [backend |-> "anthropic",
     kwargs |-> [model |-> "claude-3-5-sonnet-20241022",
                 messages |-> messages,
                 tools |-> filtered_tools(fmt_tools),
                 max_tokens |-> 1024,
                 betas |-> <<COMPUTER_USE_BETA_FLAG>>]]

\* formatted_tools = None; "tools": formatted_tools or None
litellm_tools(fmt_tools) == PyNone

litellm_request(ctx, model, messages, fmt_tools, settings) ==
    [backend |-> "litellm",
     kwargs |-> Overlay(Overlay([model |-> model,
                                 tools |-> litellm_tools(fmt_tools),
                                 messages |-> messages],
                                agent_default_settings(ctx)),
                        settings),
     extra_body |-> [cache |-> [no_cache |->
                        IF debug THEN TRUE ELSE ctx.current_step.disable_cache]]]

-----------------------------------------------------------------------------
(* prompt_step: the Anthropic response made a ModelResponse *)

\* SelectBlocks stopping at the first block of the type
RECURSIVE SelectBlocks_first_only(_, _)
SelectBlocks_first_only(blocks, type) ==
    IF blocks = <<>> THEN <<>>
    ELSE IF Head(blocks).type = type THEN <<Head(blocks)>>
         ELSE SelectBlocks_first_only(Tail(blocks), type)

\* [block for block in claude_response.content if block.type == type]
RECURSIVE SelectBlocks(_, _)
SelectBlocks(blocks, type) ==
    IF blocks = <<>> THEN <<>>
    ELSE IF Head(blocks).type = type
         THEN <<Head(blocks)>> \o SelectBlocks(Tail(blocks), type)
         ELSE SelectBlocks(Tail(blocks), type)

\* json.dumps(obj): the JSON text of a dict, a str that json.loads reads back
json_dumps(obj) == [t |-> "str", json |-> obj.v]

\* litellm's Function(name=..., arguments=...): dict arguments are kept as
\* their JSON text
Function(name, arguments) ==
    [name |-> name,
     arguments |-> IF arguments.t = "dict" THEN json_dumps(arguments) ELSE arguments]

\* tool_call_of_block naming the call after the block's type
tool_call_of_block_named_by_type(block) ==
    [id |-> "call_auto", type |-> "function",
     function |-> Function(block.type, block.input)]

\* ChatCompletionMessageToolCall(type="function", function=Function(...))
tool_call_of_block(block) ==
    [id |-> "call_auto", type |-> "function",
     function |-> Function(block.name, block.input)]

\* lines 263-318; `now` is int(datetime.now().timestamp())
claude_to_model_response(beta_message, now) ==
    LET text_blocks == SelectBlocks(beta_message.content, "text")
        tool_blocks == SelectBlocks(beta_message.content, "tool_use")
        wrap(choice) == Ok([id |-> beta_message.id,
                            choices |-> <<choice>>,
                            created |-> now,
                            model |-> beta_message.model,
                            object |-> "text_completion"])
    IN  IF Len(text_blocks) > 1
        THEN Raised("ApplicationError", "Claude should only return one message", None)
        ELSE IF beta_message.stop_reason = "tool_use"
        THEN wrap([finish_reason |-> "tool_calls",
                   message |-> [role |-> "assistant",
                                content |-> IF text_blocks # <<>>
                                            THEN text_blocks[1].text ELSE None,
                                tool_calls |-> PyList(
                                    [i \in DOMAIN tool_blocks |->
                                        tool_call_of_block(tool_blocks[i])])]])
        ELSE IF text_blocks = <<>>
        THEN Raised("AssertionError",
                    "Claude should always return a text block for stop_reason=stop", None)
        ELSE wrap([finish_reason |-> "stop",
                   message |-> [role |-> "assistant",
                                content |-> text_blocks[1].text,
                                tool_calls |-> PyNone]])

-----------------------------------------------------------------------------
(* prompt_step: unwrap, and tool calls made integration/system calls again *)

StepOutcome(output) == [status |-> "returned", output |-> output, next |-> None]
Failure(exception) == [status |-> "raised", error |-> exception]
NoOutcome == [status |-> "pending"]

\* unwrap_outcome without the finish_reason check
unwrap_outcome_any_finish(resp) ==
    IF Len(resp.choices) # 1
    THEN Failure(Raised("ApplicationError", "Only one choice is supported", None))
    ELSE StepOutcome(resp.choices[1].message.content)

\* lines 341-352
unwrap_outcome(resp) ==
    IF Len(resp.choices) # 1
    THEN Failure(Raised("ApplicationError", "Only one choice is supported", None))
    ELSE IF resp.choices[1].finish_reason = "tool_calls"
    THEN Failure(Raised("ApplicationError", "Tool calls cannot be unwrapped", None))
    ELSE StepOutcome(resp.choices[1].message.content)

\* rekey_call without call.pop("function")
rekey_call_keeps_function(call, original_tool) ==
    LET type == ToolType(original_tool) IN
    IF type = "function" THEN call
    ELSE Overlay(Overlay(call, [type |-> type]),
                 type :> [name |-> call.function.name,
                          arguments |-> call.function.arguments])

\* lines 369-377: one call against the tool it names
rekey_call(call, original_tool) ==
    LET type == ToolType(original_tool) IN
    IF type = "function" THEN call
    ELSE Overlay(Overlay(Without(call, {"function"}), [type |-> type]),
                 type :> [name |-> call.function.name,
                          arguments |-> call.function.arguments])

\* rekey_calls with `continue` in place of the raise on an unknown tool
RECURSIVE rekey_calls_skips_unknown(_, _)
rekey_calls_skips_unknown(calls, mapping) ==
    IF calls = <<>> THEN Ok(<<>>)
    ELSE LET call == Head(calls)
             rest == rekey_calls_skips_unknown(Tail(calls), mapping)
         IN  IF call.function.name \notin DOMAIN mapping
             THEN Ok(<<call>> \o rest.value)
             ELSE Ok(<<rekey_call(call, mapping[call.function.name])>> \o rest.value)

\* lines 361-377: the calls of one choice, in order, up to the first unknown tool
RECURSIVE rekey_calls(_, _)
rekey_calls(calls, mapping) ==
    IF calls = <<>> THEN Ok(<<>>)
    ELSE LET call == Head(calls)
             call_name == call.function.name
         IN  IF call_name \notin DOMAIN mapping
             THEN Raised("ApplicationError", "Tool not found", call_name)
             ELSE LET rest == rekey_calls(Tail(calls), mapping) IN
                  IF rest.raised THEN rest
                  ELSE Ok(<<rekey_call(call, mapping[call_name])>> \o rest.value)

\* rekey_choices without the finish_reason test: the calls of every choice
\* that carries calls are re-keyed
RECURSIVE rekey_choices_any_finish(_, _)
rekey_choices_any_finish(choices, mapping) ==
    IF choices = <<>> THEN Ok(<<>>)
    ELSE LET choice == Head(choices)
             head == IF choice.message.tool_calls.t = "list"
                     THEN LET calls == rekey_calls(choice.message.tool_calls.v, mapping)
                          IN  IF calls.raised THEN calls
                              ELSE Ok([choice EXCEPT
                                         !.message.tool_calls = PyList(calls.value)])
                     ELSE Ok(choice)
         IN  IF head.raised THEN head
             ELSE LET rest == rekey_choices_any_finish(Tail(choices), mapping) IN
                  IF rest.raised THEN rest
                  ELSE Ok(<<head.value>> \o rest.value)

\* lines 357-377: the choices, in order
RECURSIVE rekey_choices(_, _)
rekey_choices(choices, mapping) ==
    IF choices = <<>> THEN Ok(<<>>)
    ELSE LET choice == Head(choices)
             head == IF choice.finish_reason = "tool_calls"
                     THEN LET calls == rekey_calls(choice.message.tool_calls.v, mapping)
                          IN  IF calls.raised THEN calls
                              ELSE Ok([choice EXCEPT
                                         !.message.tool_calls = PyList(calls.value)])
                     ELSE Ok(choice)
         IN  IF head.raised THEN head
             ELSE LET rest == rekey_choices(Tail(choices), mapping) IN
                  IF rest.raised THEN rest
                  ELSE Ok(<<head.value>> \o rest.value)

\* finish with the re-keying done before the unwrap test
finish_rekeys_first(resp, unwrap, mapping) ==
    LET choices == rekey_choices(resp.choices, mapping) IN
    IF choices.raised THEN Failure(choices)
    ELSE IF unwrap THEN unwrap_outcome(resp)
    ELSE StepOutcome([resp EXCEPT !.choices = choices.value])

\* lines 341-382
finish(resp, unwrap, mapping) ==
    IF unwrap THEN unwrap_outcome(resp)
    ELSE LET choices == rekey_choices(resp.choices, mapping) IN
         IF choices.raised THEN Failure(choices)
         ELSE StepOutcome([resp EXCEPT !.choices = choices.value])

-----------------------------------------------------------------------------
(* prompt_step, lines 157-339: from the entry to the backend call.  `result` *)
(* is what base_evaluate returns (or raises) when the prompt is evaluated.  *)

NoRequest == [backend |-> "none"]
NoResponse == [id |-> None, choices |-> <<>>]
NoBetaMessage == [id |-> None, stop_reason |-> None, content |-> <<>>]
NoResult == [t |-> "nothing", v |-> None]
NothingApplied == [evaluate |-> FALSE, render |-> FALSE, skip_vars |-> <<>>,
                   result |-> NoResult]

\* isinstance(prompt, (str, list))
valid_prompt_value(p) == p.t \in {"str", "list"}

\* the values of the locals and of the outcome when the step stops early
Stopped(messages, did, fmt_tools, mapping, exception) ==
    [pc |-> "done", prompt |-> messages, applied |-> did,
     formatted_tools |-> fmt_tools, tools_mapping |-> mapping,
     request |-> NoRequest, outcome |-> Failure(exception)]

Calling(messages, did, fmt_tools, mapping, req) ==
    [pc |-> IF req.backend = "anthropic" THEN "awaiting_anthropic"
            ELSE "awaiting_litellm",
     prompt |-> messages, applied |-> did,
     formatted_tools |-> fmt_tools, tools_mapping |-> mapping,
     request |-> req, outcome |-> NoOutcome]

begin(ctx, result) ==
    LET p0 == ctx.current_step.prompt
        evaluate == should_evaluate_prompt(p0)
        did == [evaluate |-> evaluate, render |-> ~evaluate,
                skip_vars |-> IF evaluate THEN <<>> ELSE <<"developer_id">>,
                result |-> IF evaluate THEN result ELSE NoResult]
    IN
    IF evaluate /\ IsRaised(result)
    THEN Stopped(<<>>, did, <<>>, EmptyDict, result)
    ELSE
    LET p1 == IF evaluate THEN result ELSE p0 IN
    IF evaluate /\ ~valid_prompt_value(p1)
    THEN Stopped(<<>>, did, <<>>, EmptyDict,
                 Raised("ApplicationError",
                        "Invalid prompt expression, expected a string or list", None))
    ELSE
    LET p2 == WrapPrompt(p1)
        p3 == render_unless_evaluated(evaluate, p2)
        model == agent_model(ctx)
        settings == passed_settings(ctx)
    IN
    IF settings.raised THEN Stopped(p3, did, <<>>, EmptyDict, settings)
    ELSE
    LET formatted == [i \in DOMAIN ctx.tools |-> format_tool(ctx.tools[i])] IN
    IF \E i \in DOMAIN formatted : IsRaised(formatted[i])
    THEN Stopped(p3, did, <<>>, EmptyDict,
                 formatted[CHOOSE i \in DOMAIN formatted :
                             /\ IsRaised(formatted[i])
                             /\ \A j \in 1..(i - 1) : ~IsRaised(formatted[j])])
    ELSE
    LET mapping == tools_mapping_of(formatted, ctx.tools) IN
    IF is_anthropic(model, formatted)
    THEN LET messages == anthropic_messages(p3) IN
         IF messages.raised THEN Stopped(p3, did, formatted, mapping, messages)
         ELSE Calling(messages.value, did, formatted, mapping,
                      anthropic_request(messages.value, formatted))
    ELSE Calling(p3, did, formatted, mapping,
                 litellm_request(ctx, model, p3, formatted, settings.value))

prompt_step_begin(EvalResults) ==
    /\ pc = "start"
    /\ \E result \in (IF should_evaluate_prompt(context.current_step.prompt)
                       THEN EvalResults ELSE {PyNone}) :
          LET next == begin(context, result) IN
          /\ pc' = next.pc
          /\ prompt' = next.prompt
          /\ applied' = next.applied
          /\ formatted_tools' = next.formatted_tools
          /\ tools_mapping' = next.tools_mapping
          /\ request' = next.request
          /\ outcome' = next.outcome
    /\ UNCHANGED <<type_is_field, debug, context, claude_response, response>>
    /\ UNCHANGED <<task_vars, transition_vars, execution_vars, workflow_vars>>

\* litellm.acompletion returns `reply`; lines 341-382 follow
acompletion_returns(Replies) ==
    /\ pc = "awaiting_litellm"
    /\ \E reply \in Replies :
          /\ response' = reply
          /\ outcome' = finish(reply, context.current_step.unwrap, tools_mapping)
    /\ pc' = "done"
    /\ UNCHANGED <<type_is_field, debug, context, prompt, applied,
                   formatted_tools, tools_mapping, request, claude_response>>
    /\ UNCHANGED <<task_vars, transition_vars, execution_vars, workflow_vars>>

\* client.beta.messages.create returns `reply`; lines 263-318 and 341-382 follow
messages_create_returns(Replies, Clock) ==
    /\ pc = "awaiting_anthropic"
    /\ \E reply \in Replies, now \in Clock :
          LET normalized == claude_to_model_response(reply, now) IN
          /\ claude_response' = reply
          /\ IF normalized.raised
             THEN /\ response' = NoResponse
                  /\ outcome' = Failure(normalized)
             ELSE /\ response' = normalized.value
                  /\ outcome' = finish(normalized.value, context.current_step.unwrap,
                                        tools_mapping)
    /\ pc' = "done"
    /\ UNCHANGED <<type_is_field, debug, context, prompt, applied,
                   formatted_tools, tools_mapping, request>>
    /\ UNCHANGED <<task_vars, transition_vars, execution_vars, workflow_vars>>

-----------------------------------------------------------------------------
(* What the collaborators may answer *)

\* litellm.acompletion: tool calls over the given names
ToolCalls(names) ==
    {[id |-> "call_0", type |-> "function",
      function |-> [name |-> n, arguments |-> "{}"]] : n \in names}

FinishReasons == {"stop", "tool_calls"}

\* one choice carrying the given calls
Choices(content, callseqs) ==
    {[finish_reason |-> fr,
      message |-> [role |-> "assistant", content |-> content,
                   tool_calls |-> IF calls = <<>> /\ fr # "tool_calls"
                                  THEN PyNone ELSE PyList(calls)]] :
        fr \in FinishReasons, calls \in callseqs}

\* the lists of exactly k choices that carry at most `budget` calls together
RECURSIVE ChoiceLists(_, _, _, _)
ChoiceLists(k, budget, content, names) ==
    IF k = 0 THEN {<<>>}
    ELSE UNION {
           {<<c>> \o rest :
              rest \in ChoiceLists(k - 1,
                                   budget - (IF c.message.tool_calls.t = "list"
                                             THEN Len(c.message.tool_calls.v) ELSE 0),
                                   content, names)} :
           c \in Choices(content, SeqsUpTo(ToolCalls(names), budget))}

ModelResponses(names, contents) ==
    {[id |-> "chatcmpl-1", model |-> "gpt-4o", created |-> 1000,
      object |-> "chat.completion", choices |-> cs] :
        cs \in UNION {ChoiceLists(k, MaxCalls, content, names) :
                        k \in 0..MaxChoices, content \in contents}}

\* client.beta.messages.create; `input` of a tool_use block is an object
ToolInput == PyDict([action |-> "screenshot"])

ContentBlocks(names) ==
    {[type |-> "text", text |-> t] : t \in {"hello", "bye"}}
    \cup {[type |-> "tool_use", name |-> n, input |-> ToolInput] : n \in names}

BetaMessagesUpTo(names, n) ==
    {[id |-> "msg_1", model |-> "claude-3-5-sonnet-20241022",
      stop_reason |-> sr, content |-> blocks] :
        sr \in {"tool_use", "end_turn"},
        blocks \in SeqsUpTo(ContentBlocks(names), n)}

BetaMessages(names) == BetaMessagesUpTo(names, MaxBlocks)

\* the names a reply may call: the mapped tools and one that is not mapped
CallableNames == (DOMAIN tools_mapping) \cup {"ghost"}

\* base_evaluate
EvalText == <<"o", "k">>
EvalMessages == <<[role |-> "system", content |-> <<"b", "e">>],
                  [role |-> "user", content |-> TemplateText]>>
EvalResults == {PyStr(EvalText), PyList(EvalMessages), PyList(<<PyInt("1")>>),
                PyInt("42"), PyNone,
                Raised("NameError", "name is not defined", None)}

-----------------------------------------------------------------------------
(* The contexts a step may be given *)

CLAUDE_SONNET == CLAUDE_3_5 \o <<"-", "s", "o", "n", "n", "e", "t">>
CLAUDE_MIXED == <<"C", "l", "a", "u", "d", "e", "-", "3", ".", "5">>
CLAUDE_OPUS == <<"c", "l", "a", "u", "d", "e", "-", "3", "-", "o", "p", "u", "s">>

PromptText == PyStr(<<"h", "i">>)
PromptTemplate == PyStr(TemplateText)
PromptExpression == PyStr(EVAL_PROMPT_PREFIX \o <<"x", " ">>)
PromptNoBlank == PyStr(<<"$", "_", "x">>)
PromptMessages ==
    PyList(<<[role |-> "system", content |-> <<"b", "e">>, name |-> None],
             [role |-> "user", content |-> TemplateText, name |-> "ada"]>>)

ContextsOfTools(prompts, unwraps, models, tool_lists) ==
    {[current_step |-> [prompt |-> p, unwrap |-> u, disable_cache |-> FALSE,
                        set_fields |-> [prompt |-> p]],
      agent |-> [model |-> m, default_settings |-> PyNone],
      tools |-> ts] :
        p \in prompts, u \in unwraps, m \in models, ts \in tool_lists}

Contexts(prompts, unwraps, models, pool) ==
    ContextsOfTools(prompts, unwraps, models, SeqsUpTo(pool, MaxTools))

NoTask == [main |-> <<>>]
NoTaskResult == [status |-> "pending"]
NoCreate == [type |-> None, accepted |-> FALSE]
NothingReturned == [op |-> None, ok |-> FALSE, id |-> 0]

\* a timedelta(seconds=n), normalised to days and seconds as timedelta does
timedelta(seconds) ==
    [days |-> seconds \div 86400, seconds |-> seconds % 86400, microseconds |-> 0]

NoActivity == [status |-> "none", result |-> None]

\* no workflow was started
InitWorkflowIdle ==
    /\ temporal_env = [temporal_schedule_to_close_timeout |-> 3600,
                       temporal_heartbeat_timeout |-> 900]
    /\ summarization_run = [pc |-> "idle", session_id |-> None, calls |-> <<>>,
                            activity |-> NoActivity, result |-> None]

\* no execution is in use
InitExecutionIdle ==
    /\ history = <<>>
    /\ ops = 0
    /\ last_op = NothingReturned

\* nothing of the task and transition models is in use
InitOthersIdle ==
    /\ task = NoTask
    /\ task_result = NoTaskResult
    /\ transitions = <<>>
    /\ last_create = NoCreate
    /\ InitExecutionIdle
    /\ InitWorkflowIdle

InitLocals ==
    /\ InitOthersIdle
    /\ pc = "start"
    /\ prompt = <<>>
    /\ applied = NothingApplied
    /\ formatted_tools = <<>>
    /\ tools_mapping = EmptyDict
    /\ request = NoRequest
    /\ claude_response = NoBetaMessage
    /\ response = NoResponse
    /\ outcome = NoOutcome

-----------------------------------------------------------------------------
(* Task definitions: the strings of a step and the step validators of      *)
(* openapi_model.py.  A string of a task is a record of its text and of    *)
(* what the two parsers say of it: `python` is whether ast.parse(text)     *)
(* succeeds, `jinja` whether jinja2's env.parse(text) succeeds, `names`    *)
(* the bare variable names in the template's top-level {{ }} outputs,      *)
(* `prefixed` whether the text starts with "$_ " and `rest_python` whether *)
(* ast.parse succeeds on the text after that prefix.                       *)

Str(text, python, jinja, names, prefixed, rest_python) ==
    [text |-> text, python |-> python, jinja |-> jinja, names |-> names,
     prefixed |-> prefixed, rest_python |-> rest_python]

X_sum     == Str("1 + 2", TRUE, TRUE, {}, FALSE, FALSE)
X_open    == Str("1 +", FALSE, TRUE, {}, FALSE, FALSE)
N_name    == Str("name", TRUE, TRUE, {}, FALSE, FALSE)
N_class   == Str("class", FALSE, TRUE, {}, FALSE, FALSE)
J_hello   == Str("hi {{ name }}", FALSE, TRUE, {N_name}, FALSE, FALSE)
J_open    == Str("hi {{ name", FALSE, FALSE, {}, FALSE, FALSE)
J_keyword == Str("{{ class }}", FALSE, TRUE, {N_class}, FALSE, FALSE)
P_sum     == Str("$_ 1 + 2", FALSE, TRUE, {}, TRUE, TRUE)
P_open    == Str("$_ 1 +", FALSE, TRUE, {}, TRUE, FALSE)

\* ast.parse(expr) raises no SyntaxError
ast_parse(expr) == expr.python

validate_python_expression(expr) == ast_parse(expr)

validate_jinja_template(template) ==
    /\ template.jinja
    /\ \A name \in template.names : validate_python_expression(name)

ValueError(msg, arg) == Raised("ValueError", msg, arg)

\* the loop of a validator over the items of a mapping of expressions
validate_items(v, msg) ==
    IF \A key \in DOMAIN v : validate_python_expression(v[key])
    THEN Ok(v)
    ELSE ValueError(msg, CHOOSE key \in DOMAIN v : ~validate_python_expression(v[key]))

validate_evaluate_expressions(v) == validate_items(v, "Invalid Python expression in key")

validate_arguments(v) ==
    IF v.t = "dict"
    THEN LET strs == {key \in DOMAIN v.v : v.v[key].t = "str"} IN
         IF \A key \in strs : validate_python_expression(v.v[key].v)
         THEN Ok(v)
         ELSE ValueError("Invalid Python expression in arguments key",
                         CHOOSE key \in strs : ~validate_python_expression(v.v[key].v))
    ELSE Ok(v)

validate_prompt(v) ==
    IF v.t = "str"
    THEN IF validate_jinja_template(v.v) THEN Ok(v)
         ELSE ValueError("Invalid Jinja template in prompt", None)
    ELSE IF v.t = "list"
    THEN IF \A i \in DOMAIN v.v :
                "content" \in DOMAIN v.v[i] => validate_jinja_template(v.v[i].content)
         THEN Ok(v)
         ELSE ValueError("Invalid Jinja template in prompt content", None)
    ELSE Ok(v)

validate_set_expressions(v) == validate_items(v, "Invalid Python expression in set key")

validate_log_template(v) ==
    IF validate_jinja_template(v) THEN Ok(v)
    ELSE ValueError("Invalid Jinja template in log", None)

validate_return_expressions(v) == validate_items(v, "Invalid Python expression in return key")

validate_yield_arguments(v) ==
    IF v.t = "dict"
    THEN IF \A key \in DOMAIN v.v : validate_python_expression(v.v[key].v)
         THEN Ok(v)
         ELSE ValueError("Invalid Python expression in yield arguments key",
                         CHOOSE key \in DOMAIN v.v : ~validate_python_expression(v.v[key].v))
    ELSE Ok(v)

validate_if_expression(v) ==
    IF validate_python_expression(v) THEN Ok(v)
    ELSE ValueError("Invalid Python expression in if condition", None)

validate_over_expression(v) ==
    IF validate_python_expression(v) THEN Ok(v)
    ELSE ValueError("Invalid Python expression in over", None)

validate_reduce_expression(v) ==
    IF v.t # "NoneType"
    THEN IF validate_python_expression(v.v) THEN Ok(v)
         ELSE ValueError("Invalid Python expression in reduce", None)
    ELSE Ok(v)

-----------------------------------------------------------------------------
(* Steps as model_dump() gives them: a dict of the step's fields and its   *)
(* kind_.  The fields are those the validators above are attached to.      *)

EvaluateStep(expr) == [kind_ |-> "evaluate", evaluate |-> [x |-> expr]]
SetStep(expr) == [kind_ |-> "set", set |-> [x |-> expr]]
LogStep(template) == [kind_ |-> "log", log |-> template]
PromptStep(p) == [kind_ |-> "prompt", prompt |-> p]
ReturnStep(expr) == [kind_ |-> "return", return_ |-> [x |-> expr]]
ToolCallStep(arguments) == [kind_ |-> "tool_call", tool |-> "calc", arguments |-> arguments]
YieldStep(arguments) == [kind_ |-> "yield", workflow |-> "main", arguments |-> arguments]
IfElseWorkflowStep(cond, then) == [kind_ |-> "if_else", if_ |-> cond, then |-> then]
MapReduceStep(over, step, reduce) ==
    [kind_ |-> "map", over |-> over, map |-> step, reduce |-> reduce]

\* the field validators that run when a step of the class is constructed
\* with the given fields; a nested step is validated as a step of its class
RECURSIVE field_validators(_, _)
field_validators(kind, fields) ==
    LET has(f) == f \in DOMAIN fields
        ok(r) == ~r.raised
        nested(step) == field_validators(step.kind_, step)
    IN
    CASE kind = "evaluate" ->
            has("evaluate") => ok(validate_evaluate_expressions(fields.evaluate))
      [] kind = "tool_call" ->
            has("arguments") => ok(validate_arguments(fields.arguments))
      [] kind = "prompt" ->
            has("prompt") => ok(validate_prompt(fields.prompt))
      [] kind = "set" ->
            has("set") => ok(validate_set_expressions(fields.set))
      [] kind = "log" ->
            has("log") => ok(validate_log_template(fields.log))
      [] kind = "return" ->
            has("return_") => ok(validate_return_expressions(fields.return_))
      [] kind = "yield" ->
            has("arguments") => ok(validate_yield_arguments(fields.arguments))
      [] kind = "if_else" ->
            /\ has("if_") => ok(validate_if_expression(fields.if_))
            /\ has("then") => nested(fields.then)
      [] kind = "map" ->
            /\ has("over") => ok(validate_over_expression(fields.over))
            /\ has("reduce") => ok(validate_reduce_expression(fields.reduce))
            /\ has("map") => nested(fields.map)
      [] OTHER -> TRUE

\* the keyword arguments a step class cannot be constructed without
required_fields(kind) ==
    CASE kind = "evaluate" -> {"evaluate"}
      [] kind = "tool_call" -> {"tool", "arguments"}
      [] kind = "prompt" -> {"prompt"}
      [] kind = "set" -> {"set"}
      [] kind = "log" -> {"log"}
      [] kind = "return" -> {"return_"}
      [] kind = "yield" -> {"workflow"}
      [] kind = "if_else" -> {"if_", "then"}
      [] kind = "map" -> {"over", "map"}
      [] OTHER -> {}

step_type_to_class ==
    {"evaluate", "tool_call", "prompt", "get", "set", "log", "return", "sleep",
     "error", "yield", "wait_for_input", "if_else", "switch", "foreach",
     "parallel", "map"}

\* step_class(**{step_type: step_content}) raising ValidationError or not
validate_step(step_type, step_content) ==
    IF step_type \in step_type_to_class
    THEN LET fields == [f \in {step_type} |-> step_content] IN
         IF /\ required_fields(step_type) \subseteq DOMAIN fields
            /\ field_validators(step_type, fields)
         THEN Ok(None)
         ELSE ValueError("Validation error for step", step_type)
    ELSE ValueError("Unknown step type", step_type)

\* the first step that does not pass, if any: step[step_type] raises KeyError
\* when the dumped step has no field named as its kind
RECURSIVE validate_workflow_steps(_, _)
validate_workflow_steps(steps, index) ==
    IF index > Len(steps) THEN Ok(None)
    ELSE LET step == steps[index]
             step_type == step.kind_
         IN IF step_type \notin DOMAIN step
            THEN Raised("KeyError", step_type, index)
            ELSE LET r == validate_step(step_type, step[step_type]) IN
                 IF r.raised
                 THEN ValueError("Error in step", index)
                 ELSE validate_workflow_steps(steps, index + 1)

Accepted == [status |-> "accepted"]
Rejected(exception) == [status |-> "rejected", error |-> exception]

\* CreateTaskRequest(**data): the steps are validated as steps of their
\* classes, then validate_task_request runs over the dumped workflows
CreateTaskRequest(data) ==
    LET at == {i \in DOMAIN data.main :
                 ~field_validators(data.main[i].kind_, data.main[i])}
    IN IF at # {}
       THEN Rejected(Raised("ValidationError", "main", CHOOSE i \in at : \A j \in at : i <= j))
       ELSE LET r == validate_workflow_steps(data.main, 1) IN
            IF r.raised
            THEN IF r.type = "ValueError"
                 THEN Rejected(ValueError("Invalid workflow", "main"))
                 ELSE Rejected(r)
            ELSE Accepted

create_task ==
    /\ task_result = NoTaskResult
    /\ task_result' = CreateTaskRequest(task)
    /\ UNCHANGED <<task, prompt_vars, transition_vars, execution_vars, workflow_vars>>

-----------------------------------------------------------------------------
(* Specification of the task creation: any workflow of the steps below *)

Expressions == {X_sum, X_open}
Templates == {J_hello, J_open, J_keyword}
Prompts ==
    {PyStr(s) : s \in {J_hello, J_open, P_sum, P_open}}
        \cup {PyList(<<[role |-> "user", content |-> s]>>) : s \in {J_hello, J_open}}
\* the arguments of a yield step are expressions; those of a tool call may
\* hold a nested mapping
YieldArguments == {PyDict([q |-> PyStr(e)]) : e \in Expressions}
ToolCallArguments ==
    YieldArguments \cup {PyDict([q |-> PyDict([deep |-> PyStr(X_open)])])}

SimpleSteps ==
    {EvaluateStep(e) : e \in Expressions}
        \cup {SetStep(e) : e \in Expressions}
        \cup {LogStep(t) : t \in Templates}
        \cup {PromptStep(p) : p \in Prompts}
        \cup {ReturnStep(e) : e \in Expressions}
        \cup {ToolCallStep(a) : a \in ToolCallArguments}
        \cup {YieldStep(a) : a \in YieldArguments}

NestedSteps == {EvaluateStep(e) : e \in Expressions} \cup {PromptStep(PyStr(P_open))}

ControlSteps ==
    {IfElseWorkflowStep(c, s) : c \in Expressions, s \in NestedSteps}
        \cup {MapReduceStep(o, s, r) : o \in Expressions, s \in NestedSteps,
                                       r \in {PyNone, PyStr(X_sum), PyStr(X_open)}}

Steps == SimpleSteps \cup ControlSteps

InitPromptIdle ==
    /\ type_is_field = FALSE
    /\ debug = FALSE
    /\ context \in Contexts({PromptText}, {FALSE}, {PyNone}, {})
    /\ pc = "idle"
    /\ prompt = <<>>
    /\ applied = NothingApplied
    /\ formatted_tools = <<>>
    /\ tools_mapping = EmptyDict
    /\ request = NoRequest
    /\ claude_response = NoBetaMessage
    /\ response = NoResponse
    /\ outcome = NoOutcome

InitTask ==
    /\ InitPromptIdle
    /\ InitWorkflowIdle
    /\ InitExecutionIdle
    /\ transitions = <<>>
    /\ last_create = NoCreate
    /\ task \in [main : SeqsUpTo(Steps, MaxSteps)]
    /\ task_result = NoTaskResult

NextTask == create_task

SpecTask == InitTask /\ [][NextTask]_vars

-----------------------------------------------------------------------------
(* Transitions: Executions.Transition and CreateTransitionRequest *)

\* the Literal of Transition.type, which CreateTransitionRequest inherits
TransitionTypeLiteral == {"finish", "wait", "error", "step", "cancelled"}

\* CreateTransitionRequest(type=..., output=..., current=..., next=...):
\* the model object, or pydantic's ValidationError for a type outside the
\* Literal; the fields the subclass made optional default to None
CreateTransitionRequest(type, output, current, next) ==
    IF type \in TransitionTypeLiteral
    THEN Ok([type |-> type, execution_id |-> None, output |-> output,
             current |-> current, next |-> next, id |-> None,
             metadata |-> None, created_at |-> None, updated_at |-> None,
             task_token |-> None])
    ELSE Raised("ValidationError", "type", type)

\* a transition of the requested type is created and, when the request
\* object could be built, recorded
create_transition(Types) ==
    /\ Len(transitions) < MaxTransitions
    /\ \E type \in Types, next \in {PyNone, PyList(<<"main", Len(transitions) + 1>>)} :
          LET r == CreateTransitionRequest(type, EmptyDict,
                                           <<"main", Len(transitions)>>, next)
          IN /\ last_create' = [type |-> type, accepted |-> ~r.raised]
             /\ transitions' = IF r.raised THEN transitions
                               ELSE Append(transitions, r.value)
    /\ UNCHANGED <<prompt_vars, task_vars, execution_vars, workflow_vars>>

-----------------------------------------------------------------------------
(* Specification of the transition records: any of the types the engine *)
(* names may be asked for                                                *)

RequestedTypes == {"init", "step", "wait", "resume", "finish", "error", "cancelled"}

InitTransition ==
    /\ InitPromptIdle
    /\ InitWorkflowIdle
    /\ InitExecutionIdle
    /\ task = NoTask
    /\ task_result = [status |-> "idle"]
    /\ transitions = <<>>
    /\ last_create = NoCreate

NextTransition == create_transition(RequestedTypes)

SpecTransition == InitTransition /\ [][NextTransition]_vars

-----------------------------------------------------------------------------
(* The transition state machine and the execution facade (start, step,    *)
(* resume, cancel).  Their code is not among the sources, which hold only *)
(* the records (Transition, Execution, ResumeExecutionRequest); the       *)
(* operations follow sections 3, 4.5, 4.6 and 7 of the specification.     *)
(* A transition's id is its position in the log.                          *)

TerminalTypes == {"finish", "error", "cancelled"}

\* the literal of Execution.status
ExecutionStatuses ==
    {"queued", "starting", "running", "awaiting_input", "succeeded", "failed",
     "cancelled"}

TransitionRecord(id, type, awaiting_input) ==
    [id |-> id, type |-> type, awaiting_input |-> awaiting_input]

Last(h) == h[Len(h)]

IsTerminal(h) == h # <<>> /\ Last(h).type \in TerminalTypes

\* Execution.status, a view of the most recent transition
ExecutionStatus(h) ==
    IF h = <<>> THEN "queued"
    ELSE LET t == Last(h) IN
         CASE t.type = "init" -> "starting"
           [] t.type = "step" -> "running"
           [] t.type = "resume" -> "running"
           [] t.type = "wait" -> IF t.awaiting_input THEN "awaiting_input" ELSE "running"
           [] t.type = "finish" -> "succeeded"
           [] t.type = "error" -> "failed"
           [] t.type = "cancelled" -> "cancelled"

\* what one operation leaves: the log and what it returned
Appended(h, op, type, awaiting_input) ==
    [history |-> Append(h, TransitionRecord(Len(h) + 1, type, awaiting_input)),
     last_op |-> [op |-> op, ok |-> TRUE, id |-> Len(h) + 1]]

Same(h, op, id) == [history |-> h, last_op |-> [op |-> op, ok |-> TRUE, id |-> id]]

Refused(h, op) == [history |-> h, last_op |-> [op |-> op, ok |-> FALSE, id |-> 0]]

\* start(execution_id, task, agent, input): records init; retried, it
\* returns the init transition
start_execution(h) ==
    IF h = <<>> THEN Appended(h, "start", "init", FALSE)
    ELSE Same(h, "start", 1)

\* step() with accepted-after-terminal appends
step_appends_after_terminal(h, outcome_type, awaiting_input) ==
    IF h = <<>> \/ ExecutionStatus(h) = "awaiting_input" THEN Refused(h, "step")
    ELSE Appended(h, "step", outcome_type, awaiting_input)

\* step(execution_id): the outcome of interpreting the step at the cursor
\* is recorded; after a terminal transition it is a no-op returning that
\* transition; an execution not started or awaiting input is not advanced
step_execution(h, outcome_type, awaiting_input) ==
    IF h = <<>> \/ ExecutionStatus(h) = "awaiting_input" THEN Refused(h, "step")
    ELSE IF IsTerminal(h) THEN Same(h, "step", Last(h).id)
    ELSE Appended(h, "step", outcome_type, awaiting_input)

\* resume() that does not look at the status
resume_from_any_status(h) ==
    IF h = <<>> \/ IsTerminal(h) THEN Refused(h, "resume")
    ELSE Appended(h, "resume", "resume", FALSE)

\* resume(execution_id, input): valid only from awaiting_input
\* (ErrResumeNotAwaiting otherwise); ResumeExecutionRequest.status is
\* "running"
resume_execution(h) ==
    IF ExecutionStatus(h) = "awaiting_input"
    THEN Appended(h, "resume", "resume", FALSE)
    ELSE Refused(h, "resume")

\* cancel(execution_id, reason): records cancelled at the next safe point;
\* cancelling a finished or cancelled execution is a no-op
cancel_execution(h) ==
    IF h = <<>> THEN Refused(h, "cancel")
    ELSE IF IsTerminal(h) THEN Same(h, "cancel", Last(h).id)
    ELSE Appended(h, "cancel", "cancelled", FALSE)

\* what interpreting a step may give: step, wait (sleep or await input),
\* finish, error
StepOutcomes ==
    {<<"step", FALSE>>, <<"wait", FALSE>>, <<"wait", TRUE>>, <<"finish", FALSE>>,
     <<"error", FALSE>>}

Start ==
    /\ ops < MaxOps
    /\ ops' = ops + 1
    /\ LET r == start_execution(history) IN
          history' = r.history /\ last_op' = r.last_op
    /\ UNCHANGED <<prompt_vars, task_vars, transition_vars, workflow_vars>>

Step ==
    /\ ops < MaxOps
    /\ ops' = ops + 1
    /\ \E o \in StepOutcomes :
          LET r == step_execution(history, o[1], o[2]) IN
          history' = r.history /\ last_op' = r.last_op
    /\ UNCHANGED <<prompt_vars, task_vars, transition_vars, workflow_vars>>

Resume ==
    /\ ops < MaxOps
    /\ ops' = ops + 1
    /\ LET r == resume_execution(history) IN
          history' = r.history /\ last_op' = r.last_op
    /\ UNCHANGED <<prompt_vars, task_vars, transition_vars, workflow_vars>>

Cancel ==
    /\ ops < MaxOps
    /\ ops' = ops + 1
    /\ LET r == cancel_execution(history) IN
          history' = r.history /\ last_op' = r.last_op
    /\ UNCHANGED <<prompt_vars, task_vars, transition_vars, workflow_vars>>

InitExecution ==
    /\ InitPromptIdle
    /\ InitWorkflowIdle
    /\ task = NoTask
    /\ task_result = [status |-> "idle"]
    /\ transitions = <<>>
    /\ last_create = NoCreate
    /\ InitExecutionIdle

NextExecution == Start \/ Step \/ Resume \/ Cancel

SpecExecution == InitExecution /\ [][NextExecution]_vars

-----------------------------------------------------------------------------
(* SummarizationWorkflow *)

\* common.retry_policies.DEFAULT_RETRY_POLICY (a collaborator's constant)
DEFAULT_RETRY_POLICY == "DEFAULT_RETRY_POLICY"

\* execute_activity without the heartbeat timeout
execute_activity_no_heartbeat(session_id) ==
    [activity |-> "summarization",
     args |-> <<session_id>>,
     schedule_to_close_timeout |->
         timedelta(temporal_env.temporal_schedule_to_close_timeout),
     retry_policy |-> DEFAULT_RETRY_POLICY]

\* workflow.execute_activity(summarization, session_id, ...): the call issued
execute_activity(session_id) ==
    [activity |-> "summarization",
     args |-> <<session_id>>,
     schedule_to_close_timeout |->
         timedelta(temporal_env.temporal_schedule_to_close_timeout),
     retry_policy |-> DEFAULT_RETRY_POLICY,
     heartbeat_timeout |-> timedelta(temporal_env.temporal_heartbeat_timeout)]

\* SummarizationWorkflow.run up to its await: the activity call is issued
run_begin ==
    /\ summarization_run.pc = "start"
    /\ summarization_run' =
           [summarization_run EXCEPT
               !.pc = "awaiting_activity",
               !.calls = Append(@, execute_activity(summarization_run.session_id)),
               !.activity = [status |-> "scheduled", result |-> None]]
    /\ UNCHANGED temporal_env
    /\ UNCHANGED <<prompt_vars, task_vars, transition_vars, execution_vars>>

\* the runtime runs the summarization activity to completion: it returns
\* None, or fails for good once the retry policy is exhausted
summarization_completes(Results) ==
    /\ summarization_run.activity.status = "scheduled"
    /\ \E r \in Results :
          summarization_run' =
              [summarization_run EXCEPT !.activity = [status |-> "completed", result |-> r]]
    /\ UNCHANGED temporal_env
    /\ UNCHANGED <<prompt_vars, task_vars, transition_vars, execution_vars>>

\* the await resumes with the activity's result, which run returns
run_returns ==
    /\ summarization_run.pc = "awaiting_activity"
    /\ summarization_run.activity.status = "completed"
    /\ summarization_run' =
           [summarization_run EXCEPT !.pc = "done",
                                     !.result = summarization_run.activity.result]
    /\ UNCHANGED temporal_env
    /\ UNCHANGED <<prompt_vars, task_vars, transition_vars, execution_vars>>

ActivityResults ==
    {Ok(PyNone), Raised("ActivityError", "Activity task failed", None)}

InitWorkflow ==
    /\ InitPromptIdle
    /\ task = NoTask
    /\ task_result = [status |-> "idle"]
    /\ transitions = <<>>
    /\ last_create = NoCreate
    /\ InitExecutionIdle
    /\ temporal_env \in [temporal_schedule_to_close_timeout : {3600, 86400, 90000},
                         temporal_heartbeat_timeout : {60, 900, 3600}]
    /\ summarization_run \in [pc : {"start"}, session_id : {"s1", "s2", "s3"},
                              calls : {<<>>}, activity : {NoActivity}, result : {None}]

NextWorkflow ==
    \/ run_begin
    \/ summarization_completes(ActivityResults)
    \/ run_returns

SpecWorkflow == InitWorkflow /\ [][NextWorkflow]_vars

-----------------------------------------------------------------------------
(* Specification of the response handling: any tools, any reply *)

RekeyPool == {T_calc, T_search, T_screen}

\* the default model with any tools, and a Claude model on the native path
InitRekey ==
    /\ type_is_field \in BOOLEAN
    /\ debug = FALSE
    /\ context \in Contexts({PromptText}, BOOLEAN, {PyNone, PyStr(CLAUDE_SONNET)},
                             RekeyPool)
    /\ context.agent.model # PyNone =>
           type_is_field /\ T_screen \in Range(context.tools)
    /\ InitLocals

NextRekey ==
    \/ prompt_step_begin(EvalResults)
    \/ acompletion_returns(ModelResponses(CallableNames, {"hello", None}))
    \/ messages_create_returns(BetaMessages(CallableNames), {1000})

SpecRekey == InitRekey /\ [][NextRekey]_vars

-----------------------------------------------------------------------------
(* Specification of the dispatch: any prompt, any model, any tools *)

DispatchPool == {T_calc, T_search, T_search_fn, T_screen, T_docs}

DispatchModels == {PyNone, PyStr(CLAUDE_SONNET), PyStr(CLAUDE_MIXED),
                   PyStr(CLAUDE_OPUS)}

DispatchPrompts == {PromptText, PromptTemplate, PromptExpression, PromptNoBlank,
                    PromptMessages}

InitDispatch ==
    /\ type_is_field \in BOOLEAN
    /\ debug = FALSE
    /\ context \in Contexts(DispatchPrompts, {FALSE}, DispatchModels, DispatchPool)
    /\ InitLocals

\* replies whose choices carry no tool call
TextReplies == ModelResponses({}, {"hello"})

NextDispatch ==
    \/ prompt_step_begin(EvalResults)
    \/ acompletion_returns(TextReplies)
    \/ messages_create_returns(BetaMessages(CallableNames), {1000})

SpecDispatch == InitDispatch /\ [][NextDispatch]_vars

-----------------------------------------------------------------------------
(* Specification of the native-tools path: a Claude-3.5 model, tools of *)
(* which some are model-native, any reply of the Anthropic client       *)

NativePool == {T_calc, T_screen, T_shell}

NativePrompts == {PromptText, PromptMessages, PromptExpression}

InitNative ==
    /\ type_is_field = TRUE
    /\ debug = FALSE
    /\ context \in ContextsOfTools(NativePrompts, {FALSE}, {PyStr(CLAUDE_SONNET)},
                                    SeqsUpTo(NativePool, MaxNativeTools))
    /\ InitLocals

NextNative ==
    \/ prompt_step_begin({PyStr(EvalText), PyList(EvalMessages)})
    \/ acompletion_returns(TextReplies)
    \/ messages_create_returns(BetaMessagesUpTo(DOMAIN tools_mapping, MaxNativeBlocks),
                               {1000})

SpecNative == InitNative /\ [][NextNative]_vars

-----------------------------------------------------------------------------
(* Specification of the settings: any agent defaults, any step-level *)
(* settings, debug on or off, either backend                         *)

\* agent.default_settings: none, or a map of settings
DefaultSettings ==
    {PyNone,
     PyDict([temperature |-> "0.1"]),
     PyDict([temperature |-> "0.1", top_p |-> "0.5"]),
     PyDict([temperature |-> "0.1", tool_choice |-> "auto"])}

\* the fields set on the step besides its prompt: flags, a label, a tool
\* choice, the tools, and the `settings` map (which may be set to None)
StepFields ==
    {EmptyDict,
     [unwrap |-> FALSE, label |-> "ask", auto_run_tools |-> FALSE],
     [tool_choice |-> "none"],
     [tool_choice |-> "none", tools |-> "all", disable_cache |-> TRUE],
     [settings |-> PyDict([temperature |-> "0.9"])],
     [settings |-> PyDict([temperature |-> "0.9", max_tokens |-> "64"]),
      tool_choice |-> "none"],
     [settings |-> PyNone]}

SettingsContexts ==
    {[current_step |-> [prompt |-> PromptText, unwrap |-> FALSE, disable_cache |-> dc,
                        set_fields |-> Overlay([prompt |-> PromptText], fields)],
      agent |-> [model |-> m, default_settings |-> ds],
      tools |-> ts] :
        dc \in BOOLEAN, fields \in StepFields, m \in {PyNone, PyStr(CLAUDE_SONNET)},
        ds \in DefaultSettings, ts \in {<<>>, <<T_calc>>, <<T_screen>>}}

InitSettings ==
    /\ type_is_field = TRUE
    /\ debug \in BOOLEAN
    /\ context \in SettingsContexts
    /\ InitLocals

NextSettings ==
    \/ prompt_step_begin(EvalResults)
    \/ acompletion_returns(TextReplies)
    \/ messages_create_returns(BetaMessages(DOMAIN tools_mapping), {1000})

SpecSettings == InitSettings /\ [][NextSettings]_vars

-----------------------------------------------------------------------------
(* Specification of the tool formatting: integrations of known and unknown *)
(* providers and methods among the tools                                   *)

FormatPool == {T_calc, T_screen, T_search, T_dummy, T_browser, T_browser_tab, T_acme}

InitFormat ==
    /\ type_is_field \in BOOLEAN
    /\ debug = FALSE
    /\ context \in Contexts({PromptText}, {FALSE}, {PyNone, PyStr(CLAUDE_SONNET)},
                            FormatPool)
    /\ InitLocals

NextFormat ==
    \/ prompt_step_begin(EvalResults)
    \/ acompletion_returns(TextReplies)
    \/ messages_create_returns(BetaMessages(CallableNames), {1000})

SpecFormat == InitFormat /\ [][NextFormat]_vars

-----------------------------------------------------------------------------
(* Properties of the response handling (SpecRekey) *)

unwrap == context.current_step.unwrap

\* a backend has answered and the answer is a ModelResponse
Answered == pc = "done" /\ response # NoResponse

ToolCallChoices == {i \in DOMAIN response.choices :
                      response.choices[i].finish_reason = "tool_calls"}

EmittedCalls(i) == response.choices[i].message.tool_calls.v

\* C1: with unwrap false, in the returned response every call of a
\* "tool_calls" choice that names a mapped tool of type K # "function" has no
\* "function" key, has type K and holds the emitted {name, arguments} under
\* the key K; a call naming a tool of type "function" is returned unchanged.
\* K is the tool's type as prompt_step reads it (original_tool.type).
C1_CallsRekeyed ==
    (Answered /\ ~unwrap /\ outcome.status = "returned") =>
        \A i \in ToolCallChoices :
            LET returned == outcome.output.choices[i].message.tool_calls.v IN
            /\ Len(returned) = Len(EmittedCalls(i))
            /\ \A j \in DOMAIN EmittedCalls(i) :
                  LET emitted == EmittedCalls(i)[j]
                      K == ToolType(tools_mapping[emitted.function.name])
                  IN  IF K = "function" THEN returned[j] = emitted
                      ELSE /\ "function" \notin DOMAIN returned[j]
                           /\ returned[j].type = K
                           /\ K \in DOMAIN returned[j]
                           /\ returned[j][K] =
                                 [name |-> emitted.function.name,
                                  arguments |-> emitted.function.arguments]

C1_Witness ==
    /\ Answered /\ ~unwrap /\ outcome.status = "returned"
    /\ \E i \in ToolCallChoices : \E j \in DOMAIN EmittedCalls(i) :
          /\ EmittedCalls(i)[j].function.name = "search"
          /\ outcome.output.choices[i].message.tool_calls.v[j].type = "integration"
    /\ \E i \in ToolCallChoices : \E j \in DOMAIN EmittedCalls(i) :
          EmittedCalls(i)[j].function.name = "calc"

UnknownToolNamed ==
    \E i \in ToolCallChoices : \E j \in DOMAIN EmittedCalls(i) :
        EmittedCalls(i)[j].function.name \notin DOMAIN tools_mapping

\* C2: with unwrap false, a response with a call in a "tool_calls" choice whose
\* name is not in the reverse map makes the step raise "Tool ... not found",
\* naming an unmapped tool, and no StepOutcome is returned.
C2_UnknownToolRaises ==
    (Answered /\ ~unwrap /\ UnknownToolNamed) =>
        /\ outcome.status = "raised"
        /\ outcome.error.type = "ApplicationError"
        /\ outcome.error.msg = "Tool not found"
        /\ outcome.error.arg \notin DOMAIN tools_mapping
        /\ "output" \notin DOMAIN outcome

\* an unknown tool named after a call that resolves to an integration tool
C2_Witness ==
    /\ Answered /\ ~unwrap /\ outcome.status = "raised"
    /\ \E i \in ToolCallChoices :
          /\ Len(EmittedCalls(i)) = 2
          /\ EmittedCalls(i)[1].function.name = "search"
          /\ EmittedCalls(i)[2].function.name = "ghost"
          /\ "search" \in DOMAIN tools_mapping

\* the returned output is the response with nothing but tool calls changed
FullResponse(out) ==
    /\ DOMAIN out = DOMAIN response
    /\ \A k \in (DOMAIN response) \ {"choices"} : out[k] = response[k]
    /\ Len(out.choices) = Len(response.choices)
    /\ \A i \in DOMAIN response.choices :
          IF i \in ToolCallChoices
          THEN /\ out.choices[i].finish_reason = "tool_calls"
               /\ out.choices[i].message.role = response.choices[i].message.role
               /\ out.choices[i].message.content = response.choices[i].message.content
               /\ Len(out.choices[i].message.tool_calls.v) = Len(EmittedCalls(i))
          ELSE out.choices[i] = response.choices[i]

\* C4: with unwrap true, a response of other than one choice raises, one
\* choice with finish_reason "tool_calls" raises, and otherwise the outcome is
\* that choice's message content with next null; with unwrap false a returned
\* outcome holds the whole normalized response.
C4_Unwrap ==
    Answered =>
        IF unwrap
        THEN IF Len(response.choices) # 1
             THEN /\ outcome.status = "raised"
                  /\ outcome.error.msg = "Only one choice is supported"
             ELSE IF response.choices[1].finish_reason = "tool_calls"
             THEN /\ outcome.status = "raised"
                  /\ outcome.error.msg = "Tool calls cannot be unwrapped"
             ELSE /\ outcome.status = "returned"
                  /\ outcome.output = response.choices[1].message.content
                  /\ outcome.next = None
        ELSE outcome.status = "returned" =>
                 FullResponse(outcome.output) /\ outcome.next = None

C4_Witness ==
    /\ Answered /\ unwrap
    /\ Len(response.choices) = 1
    /\ response.choices[1].finish_reason = "stop"
    /\ outcome.status = "returned"
    /\ outcome.output = "hello"

\* the name a returned call carries, under "function" or under its type
ReturnedName(call) ==
    IF "function" \in DOMAIN call THEN call.function.name ELSE call[call.type].name

\* C24: with unwrap false the returned response differs from the normalized
\* one in nothing but the tool calls of its "tool_calls" choices: id, model
\* and created, the number and order of choices, each choice's
\* finish_reason, role and content, the number and order of the calls of
\* each choice, and every other choice whole (with any calls it carries) are
\* as normalized; the outcome's next is null.
C24_RekeyFrame ==
    (Answered /\ ~unwrap /\ outcome.status = "returned") =>
        LET out == outcome.output IN
        /\ outcome.next = None
        /\ out.id = response.id
        /\ out.model = response.model
        /\ out.created = response.created
        /\ Len(out.choices) = Len(response.choices)
        /\ \A i \in DOMAIN response.choices :
              LET before == response.choices[i]
                  after == out.choices[i]
              IN  /\ after.finish_reason = before.finish_reason
                  /\ after.message.role = before.message.role
                  /\ after.message.content = before.message.content
                  /\ IF before.finish_reason = "tool_calls"
                     THEN /\ Len(after.message.tool_calls.v) = Len(before.message.tool_calls.v)
                          /\ \A j \in DOMAIN before.message.tool_calls.v :
                                /\ after.message.tool_calls.v[j].id =
                                       before.message.tool_calls.v[j].id
                                /\ ReturnedName(after.message.tool_calls.v[j]) =
                                       before.message.tool_calls.v[j].function.name
                     ELSE after = before

\* a "stop" choice carrying a call of an integration tool beside a
\* "tool_calls" choice whose call was re-keyed
C24_Witness ==
    /\ Answered /\ ~unwrap /\ outcome.status = "returned"
    /\ Len(response.choices) = 2
    /\ response.choices[1].finish_reason = "stop"
    /\ response.choices[1].message.tool_calls.t = "list"
    /\ response.choices[1].message.tool_calls.v[1].function.name = "search"
    /\ response.choices[2].finish_reason = "tool_calls"
    /\ Len(response.choices[2].message.tool_calls.v) = 1
    /\ outcome.output.choices[2].message.tool_calls.v[1].type = "integration"

\* some call of the response, in whatever choice, names a tool not mapped
UnknownToolAnywhere ==
    \E i \in DOMAIN response.choices :
        /\ response.choices[i].message.tool_calls.t = "list"
        /\ \E j \in DOMAIN response.choices[i].message.tool_calls.v :
              response.choices[i].message.tool_calls.v[j].function.name
                  \notin DOMAIN tools_mapping

\* C25: with unwrap true the outcome is decided by the number of choices
\* and the one choice's finish_reason and content alone; the reverse map is
\* not consulted: a response naming an unknown tool fails with one of the
\* unwrap errors, never with the unknown-tool error, and one choice with
\* another finish_reason than "tool_calls" succeeds with its content
\* whatever calls it carries.
C25_UnwrapIgnoresMap ==
    (Answered /\ unwrap) =>
        /\ outcome.status = "raised" =>
               /\ outcome.error.msg \in {"Only one choice is supported",
                                         "Tool calls cannot be unwrapped"}
               /\ (outcome.error.msg = "Only one choice is supported")
                      = (Len(response.choices) # 1)
        /\ (outcome.status = "returned") =
               (Len(response.choices) = 1
                /\ response.choices[1].finish_reason # "tool_calls")
        /\ outcome.status = "returned" =>
               outcome = [status |-> "returned",
                          output |-> response.choices[1].message.content,
                          next |-> None]

\* one "stop" choice that carries a call of an unknown tool, unwrapped
C25_Witness ==
    /\ Answered /\ unwrap /\ UnknownToolAnywhere
    /\ Len(response.choices) = 1
    /\ response.choices[1].finish_reason = "stop"
    /\ outcome.status = "returned"
    /\ outcome.output = "hello"

-----------------------------------------------------------------------------
(* Properties of the dispatch (SpecDispatch) *)

\* prompt_step got as far as building tools_mapping
Mapped == pc # "start" /\ Len(formatted_tools) = Len(context.tools)

RoundTrip ==
    /\ \A i \in DOMAIN context.tools :
          /\ EmittedName(formatted_tools[i]) \in DOMAIN tools_mapping
          /\ tools_mapping[EmittedName(formatted_tools[i])] = context.tools[i]
    /\ Cardinality(DOMAIN tools_mapping) = Len(context.tools)

\* C3 as stated: for any list of tools, the name emitted for each tool maps
\* back to that tool and the reverse map has one entry per formatted tool.
C3_RoundTripAnyList == Mapped => RoundTrip

\* the condition of line 233 on the agent's model and the formatted tools
NativeCondition ==
    /\ startswith(lower(agent_model(context)), CLAUDE_3_5)
    /\ \E i \in DOMAIN formatted_tools : formatted_tools[i].type \in NativeToolTypes

BackendChoice ==
    /\ request.backend \in {"anthropic", "litellm"}
    /\ request.backend = "anthropic" <=> NativeCondition
    /\ context.agent.model = PyNone =>
           request.backend = "litellm" /\ request.kwargs.model = GPT_4O

\* C5 as stated: every invocation calls exactly one backend, the native one
\* iff the model is a Claude-3.5 model (case-insensitively) and a formatted
\* tool has a native type, the generic one in every other case.
C5_OneBackendAlways == pc = "done" => BackendChoice

\* C5 amended: an invocation that raises before the dispatch (the prompt
\* expression raises or has an invalid value, a tool cannot be formatted, the
\* native messages cannot be built) calls no backend; every other invocation
\* calls exactly one backend, chosen as stated.
C5_OneBackendUnlessRaisedBefore ==
    pc # "start" =>
        IF request = NoRequest
        THEN pc = "done" /\ outcome.status = "raised" /\ response = NoResponse
        ELSE BackendChoice

C5_Witness ==
    /\ pc = "done"
    /\ request.backend = "anthropic"
    /\ context.agent.model = PyStr(CLAUDE_MIXED)
    /\ outcome.status = "returned"

\* C6: on the generic path, when the context holds at least one tool the
\* completion request's tools are the non-empty list of formatted descriptors.
C6_ToolsPassedThrough ==
    (request.backend = "litellm" /\ Len(context.tools) >= 1) =>
        /\ request.kwargs.tools = PyList(formatted_tools)
        /\ formatted_tools # <<>>

IsMessageList(value) ==
    /\ value.t = "list"
    /\ \A i \in DOMAIN value.v : {"role", "content"} \subseteq DOMAIN value.v[i]

InvalidPromptExpression ==
    /\ outcome.status = "raised"
    /\ outcome.error.type = "ApplicationError"
    /\ outcome.error.msg = "Invalid prompt expression, expected a string or list"
    /\ request = NoRequest

\* the prompt had the "$_ " prefix and base_evaluate returned a value
Evaluated == pc # "start" /\ applied.evaluate /\ ~IsRaised(applied.result)

SentAsEvaluated ==
    /\ applied.result.t = "str" =>
           request.kwargs.messages = <<[role |-> "user", content |-> applied.result.v]>>
    /\ applied.result.t = "list" =>
           /\ Len(request.kwargs.messages) = Len(applied.result.v)
           /\ request.backend = "litellm" =>
                  request.kwargs.messages = applied.result.v
           /\ request.backend = "anthropic" =>
                  \A i \in DOMAIN applied.result.v :
                      request.kwargs.messages[i].content = applied.result.v[i].content

\* C7 as stated: a "$_ " prompt whose value is neither a string nor a list of
\* messages fails with the invalid-prompt-expression error and calls no
\* backend; a string or message-list value is what is sent.
C7_RejectsNonMessageLists ==
    Evaluated =>
        /\ (applied.result.t # "str" /\ ~IsMessageList(applied.result))
               => InvalidPromptExpression
        /\ request # NoRequest => SentAsEvaluated

\* C9: the derived type of a tool with exactly one populated variant is the
\* name of that variant.
C9_TypeIsPopulatedVariant ==
    \A i \in DOMAIN context.tools :
        type_property(context.tools[i]) = context.tools[i].variant

\* the prompt of the step as the code takes it: the value of the expression
\* when the prompt is evaluated, the step's prompt otherwise
PromptTaken == IF applied.evaluate THEN applied.result ELSE context.current_step.prompt

\* the content a prompt text is sent with: rendered unless it was evaluated
SentContent(text) == IF applied.evaluate THEN text ELSE Render(text)

\* C19: a bare string prompt, literal or the string value of a "$_ "
\* expression, is sent as exactly one user message with that string as
\* content (rendered in the literal case); a list prompt is sent as the same
\* number of messages in the same order.
C19_StringWrappedListKept ==
    request # NoRequest =>
        /\ PromptTaken.t = "str" =>
               request.kwargs.messages =
                   <<[role |-> "user", content |-> SentContent(PromptTaken.v)]>>
        /\ PromptTaken.t = "list" =>
               /\ Len(request.kwargs.messages) = Len(PromptTaken.v)
               /\ \A i \in DOMAIN PromptTaken.v :
                      "content" \in DOMAIN PromptTaken.v[i] =>
                          request.kwargs.messages[i].content =
                              SentContent(PromptTaken.v[i].content)

C19_Witness ==
    /\ request # NoRequest
    /\ request.backend = "litellm"
    /\ context.current_step.prompt = PromptTemplate
    /\ request.kwargs.messages = <<[role |-> "user", content |-> RenderedText]>>

\* the step's prompt is a string that starts with "$_ "
HasEvalPrefix ==
    LET p == context.current_step.prompt IN
    /\ p.t = "str"
    /\ Len(p.v) >= 3
    /\ SubSeq(p.v, 1, 3) = <<"$", "_", " ">>

\* the messages the prompt stands for before any rendering
Unrendered(p) == IF p.t = "list" THEN p.v ELSE <<[content |-> p.v]>>

\* the i-th message sent has the content of the i-th of `messages`, as it is
\* or rendered
ContentsSent(messages, rendered) ==
    /\ Len(request.kwargs.messages) = Len(messages)
    /\ \A i \in DOMAIN messages :
          "content" \in DOMAIN messages[i] =>
              request.kwargs.messages[i].content =
                  IF rendered THEN Render(messages[i].content) ELSE messages[i].content

\* C23: in every run exactly one of expression evaluation and template
\* rendering is applied to the prompt: a string prompt with the "$_ " prefix
\* is evaluated and its value sent unrendered, also a list of messages with
\* template markers; every other prompt is rendered with developer_id
\* skipped and never evaluated.
C23_EvaluateOrRender ==
    pc # "start" =>
        /\ applied.evaluate # applied.render
        /\ applied.evaluate = HasEvalPrefix
        /\ (HasEvalPrefix /\ request # NoRequest) =>
               ContentsSent(Unrendered(applied.result), FALSE)
        /\ ~HasEvalPrefix =>
               /\ applied.result = NoResult
               /\ applied.skip_vars = <<"developer_id">>
               /\ request # NoRequest =>
                      ContentsSent(Unrendered(context.current_step.prompt), TRUE)

C23_Witness ==
    /\ request # NoRequest
    /\ HasEvalPrefix
    /\ applied.result = PyList(EvalMessages)
    /\ request.kwargs.messages[2].content = TemplateText

-----------------------------------------------------------------------------
(* Properties of the task creation (SpecTask) *)

\* a syntactically invalid expression: ast.parse rejects it
InvalidExpression(e) == ~e.python

\* a syntactically invalid template: jinja2 rejects it
InvalidTemplate(s) == ~s.jinja

\* a prompt string: a "$_ " expression or a template
InvalidPromptString(s) == IF s.prefixed THEN ~s.rest_python ELSE InvalidTemplate(s)

InvalidArguments(a) ==
    a.t = "dict" /\ \E k \in DOMAIN a.v : a.v[k].t = "str" /\ InvalidExpression(a.v[k].v)

\* some expression or template occurrence of the step is syntactically invalid
RECURSIVE HasInvalidOccurrence(_)
HasInvalidOccurrence(step) ==
    CASE step.kind_ = "evaluate" ->
            \E k \in DOMAIN step.evaluate : InvalidExpression(step.evaluate[k])
      [] step.kind_ = "set" -> \E k \in DOMAIN step.set : InvalidExpression(step.set[k])
      [] step.kind_ = "return" ->
            \E k \in DOMAIN step.return_ : InvalidExpression(step.return_[k])
      [] step.kind_ = "log" -> InvalidTemplate(step.log)
      [] step.kind_ = "prompt" ->
            IF step.prompt.t = "str" THEN InvalidPromptString(step.prompt.v)
            ELSE \E i \in DOMAIN step.prompt.v : InvalidTemplate(step.prompt.v[i].content)
      [] step.kind_ \in {"tool_call", "yield"} -> InvalidArguments(step.arguments)
      [] step.kind_ = "if_else" ->
            InvalidExpression(step.if_) \/ HasInvalidOccurrence(step.then)
      [] step.kind_ = "map" ->
            \/ InvalidExpression(step.over)
            \/ step.reduce.t = "str" /\ InvalidExpression(step.reduce.v)
            \/ HasInvalidOccurrence(step.map)
      [] OTHER -> FALSE

\* C8: a task one of whose expression or template occurrences (a "$_ "
\* prompt expression and a nested step included) is syntactically invalid is
\* rejected when it is created.
C8_InvalidTaskRejected ==
    (task_result # NoTaskResult /\ \E i \in DOMAIN task.main : HasInvalidOccurrence(task.main[i]))
        => task_result.status = "rejected"

-----------------------------------------------------------------------------
(* Properties of the transition records (SpecTransition) *)

\* C10: a transition record can carry each of the seven types init, step,
\* wait, resume, finish, error and cancelled: asking for a record of any of
\* them gives one.
C10_SevenTypesRecordable ==
    last_create.type \in {"init", "step", "wait", "resume", "finish", "error", "cancelled"}
        => /\ last_create.accepted
           /\ transitions[Len(transitions)].type = last_create.type

-----------------------------------------------------------------------------
(* Properties of the execution facade (SpecExecution) *)

TerminalCount(h) == Cardinality({i \in DOMAIN h : h[i].type \in TerminalTypes})

-----------------------------------------------------------------------------
(* Properties of the native-tools path (SpecNative) *)

NativeCalled == request.backend = "anthropic"

\* positions of the formatted tools of a model-native type
NativePositions ==
    {i \in DOMAIN formatted_tools :
        formatted_tools[i].type \in
            {"computer_20241022", "bash_20241022", "text_editor_20241022"}}

\* the k-th smallest position of a set of positions
Nth(positions, k) ==
    CHOOSE i \in positions : Cardinality({j \in positions : j < i}) = k - 1

\* C13: the native request carries exactly the formatted tools of a
\* model-native type, in their order, the beta flag and a max-tokens cap.
C13_NativeRequest ==
    NativeCalled =>
        /\ Len(request.kwargs.tools) = Cardinality(NativePositions)
        /\ \A k \in DOMAIN request.kwargs.tools :
              request.kwargs.tools[k] = formatted_tools[Nth(NativePositions, k)]
        /\ request.kwargs.betas = <<"computer-use-2024-10-22">>
        /\ request.kwargs.max_tokens = 1024

\* a function tool between two native tools is left out, the order is kept
C13_Witness ==
    /\ NativeCalled
    /\ Len(context.tools) = 3
    /\ context.tools[1] = T_shell
    /\ context.tools[2] = T_calc
    /\ context.tools[3] = T_screen
    /\ Len(request.kwargs.tools) = 2
    /\ request.kwargs.tools[1].type = "bash_20241022"
    /\ request.kwargs.tools[2].type = "computer_20241022"

\* the prompt messages as they are before the native request is built: the
\* evaluated value or the rendered prompt, a bare string wrapped
PromptBeforeDispatch ==
    IF applied.evaluate THEN WrapPrompt(applied.result)
    ELSE render_template(WrapPrompt(context.current_step.prompt))

\* C14: on the native path the i-th message sent has the role and the
\* content of the i-th prompt message and no other field.
C14_MessagesReduced ==
    NativeCalled =>
        /\ Len(request.kwargs.messages) = Len(PromptBeforeDispatch)
        /\ \A i \in DOMAIN request.kwargs.messages :
              /\ DOMAIN request.kwargs.messages[i] = {"role", "content"}
              /\ request.kwargs.messages[i].content = PromptBeforeDispatch[i].content
              /\ request.kwargs.messages[i].role = PromptBeforeDispatch[i].role

NativeAnswered == pc = "done" /\ claude_response # NoBetaMessage

TextBlocks == {i \in DOMAIN claude_response.content : claude_response.content[i].type = "text"}

ToolUseBlocks ==
    {i \in DOMAIN claude_response.content : claude_response.content[i].type = "tool_use"}

\* C17: for stop reason tool_use, more than one text block fails the step;
\* otherwise the normalized response is one choice with finish_reason
\* "tool_calls", one function-shaped call per tool_use block in block order
\* carrying the block's name and (as JSON text) its input, and the text of
\* the single text block, or null, as content.
C17_ToolUseNormalized ==
    (NativeAnswered /\ claude_response.stop_reason = "tool_use") =>
        IF Cardinality(TextBlocks) > 1
        THEN outcome.status = "raised" /\ response = NoResponse
        ELSE /\ Len(response.choices) = 1
             /\ LET choice == response.choices[1]
                    calls == choice.message.tool_calls
                IN /\ choice.finish_reason = "tool_calls"
                   /\ calls.t = "list"
                   /\ Len(calls.v) = Cardinality(ToolUseBlocks)
                   /\ \A k \in DOMAIN calls.v :
                         LET block == claude_response.content[Nth(ToolUseBlocks, k)] IN
                         /\ calls.v[k].type = "function"
                         /\ DOMAIN calls.v[k].function = {"name", "arguments"}
                         /\ calls.v[k].function.name = block.name
                         /\ calls.v[k].function.arguments.t = "str"
                         /\ calls.v[k].function.arguments.json = block.input.v
                   /\ choice.message.content =
                         IF TextBlocks = {} THEN None
                         ELSE claude_response.content[Nth(TextBlocks, 1)].text

C17_Witness ==
    /\ NativeAnswered
    /\ claude_response.stop_reason = "tool_use"
    /\ Len(claude_response.content) = 3
    /\ claude_response.content[1].type = "tool_use"
    /\ claude_response.content[1].name = "shell"
    /\ claude_response.content[2].type = "text"
    /\ claude_response.content[3].type = "tool_use"
    /\ claude_response.content[3].name = "screen"
    /\ response.choices[1].message.tool_calls.v[2].function.name = "screen"
    /\ response.choices[1].message.content = "hello"

\* C18: for any other stop reason the step fails unless there is exactly
\* one text block; with exactly one, the normalized response is one choice
\* with finish_reason "stop", that block's text and no tool calls, also when
\* the response holds tool_use blocks.
C18_StopNormalized ==
    (NativeAnswered /\ claude_response.stop_reason # "tool_use") =>
        IF Cardinality(TextBlocks) # 1
        THEN outcome.status = "raised" /\ response = NoResponse
        ELSE /\ Len(response.choices) = 1
             /\ response.choices[1].finish_reason = "stop"
             /\ response.choices[1].message.content =
                    claude_response.content[Nth(TextBlocks, 1)].text
             /\ response.choices[1].message.tool_calls = PyNone

C18_Witness ==
    /\ NativeAnswered
    /\ claude_response.stop_reason = "end_turn"
    /\ Len(claude_response.content) = 2
    /\ claude_response.content[1].type = "tool_use"
    /\ claude_response.content[2] = [type |-> "text", text |-> "bye"]
    /\ response.choices[1].message.content = "bye"
    /\ outcome.status = "returned"

-----------------------------------------------------------------------------
(* Properties of the settings (SpecSettings) *)

GenericCalled == request.backend = "litellm"

\* the step-level settings: the fields set on the step that are settings,
\* and over them the entries of its `settings` map
StepLevelKeys ==
    LET fields == context.current_step.set_fields IN
    ((DOMAIN fields) \ (excluded_keys \cup {"settings"}))
        \cup (IF "settings" \in DOMAIN fields THEN DOMAIN fields.settings.v ELSE {})

StepLevelValue(key) ==
    LET fields == context.current_step.set_fields IN
    IF "settings" \in DOMAIN fields /\ key \in DOMAIN fields.settings.v
    THEN fields.settings.v[key] ELSE fields[key]

AgentDefaults ==
    IF context.agent.default_settings.t = "dict" THEN context.agent.default_settings.v
    ELSE EmptyDict

StepFieldsNotSent ==
    /\ (DOMAIN request.kwargs) \cap
           {"prompt", "kind_", "label", "unwrap", "auto_run_tools", "disable_cache"} = {}
    /\ request.kwargs.tools = PyNone

\* the overlay for the keys of a set
OverlaidOn(keys) ==
    /\ \A key \in keys \cap StepLevelKeys \cap DOMAIN AgentDefaults :
          key \in DOMAIN request.kwargs /\ request.kwargs[key] = StepLevelValue(key)
    /\ \A key \in (keys \cap DOMAIN AgentDefaults) \ StepLevelKeys :
          key \in DOMAIN request.kwargs /\ request.kwargs[key] = AgentDefaults[key]

SettingKeys == {"temperature", "top_p", "max_tokens", "tool_choice"}

\* C15 as stated: on the generic path a key of both the agent defaults and
\* the step-level settings is sent with the step's value, a key of the
\* agent defaults alone with the agent's value, and the step fields prompt,
\* kind_, label, unwrap, auto_run_tools, disable_cache and tools are never
\* sent as settings.
C15_SettingsOverlaid ==
    GenericCalled => (OverlaidOn(SettingKeys) /\ StepFieldsNotSent)

\* C16: a generic request that carries no tools carries no tool_choice.
C16_NoToolChoiceWithoutTools ==
    (GenericCalled /\ ("tools" \notin DOMAIN request.kwargs
                       \/ request.kwargs.tools \in {PyNone, PyList(<<>>)}))
        => "tool_choice" \notin DOMAIN request.kwargs

\* C20: whichever backend is called, the call carries the flag no-cache,
\* true exactly when debug is on or the step's disable_cache is set.
C20_NoCacheFlag ==
    request # NoRequest =>
        /\ "extra_body" \in DOMAIN request
        /\ request.extra_body.cache.no_cache = (debug \/ context.current_step.disable_cache)

-----------------------------------------------------------------------------
(* Properties of the tool formatting (SpecFormat) *)

Formatted == pc # "start"

IsIntegration(tool) == ToolType(tool) = "integration" /\ tool.variant = "integration"

\* the provider, or the method of a multi-method provider, is not in the table
UnknownIntegration(tool) ==
    /\ IsIntegration(tool)
    /\ \/ tool.def.provider \notin SingleProviders \cup {"browserbase"}
       \/ tool.def.provider = "browserbase" /\ tool.def.method \notin BrowserbaseMethods

\* the integration is in the table and declares no arguments
NoArgumentsIntegration(tool) ==
    /\ IsIntegration(tool)
    /\ ~UnknownIntegration(tool)
    /\ DeclaredArguments(ProviderLookup(tool.def.provider, tool.def.method)) = PyNone

EmptySchemaDescriptor(tool) ==
    [type |-> "function",
     function |-> [name |-> tool.name, description |-> tool.description,
                   parameters |-> [type |-> "object", properties |-> EmptyDict,
                                   required |-> <<>>]]]

FormattedEmpty(i) ==
    /\ i \in DOMAIN formatted_tools
    /\ formatted_tools[i] = EmptySchemaDescriptor(context.tools[i])

\* C21: formatting an integration tool whose provider, or whose method of a
\* multi-method provider, is not in the table does not fail and yields a
\* function descriptor with the tool's name and the empty object schema; so
\* does a known integration that declares no arguments.
C21_UnknownIntegrationEmptySchema ==
    Formatted =>
        /\ outcome.status # "raised"
        /\ \A i \in DOMAIN context.tools :
              (UnknownIntegration(context.tools[i]) \/ NoArgumentsIntegration(context.tools[i]))
                  => FormattedEmpty(i)

-----------------------------------------------------------------------------
(* Properties of the summarization workflow (SpecWorkflow) *)

\* the seconds a timeout of days and seconds stands for
TotalSeconds(timeout) == timeout.days * 86400 + timeout.seconds

\* C22: SummarizationWorkflow.run issues exactly one activity call, the
\* summarization of the session id, carrying a schedule_to_close timeout and
\* a heartbeat timeout of the configured seconds and the default retry
\* policy; the workflow completes only after the activity completed, with
\* the activity's result.
C22_OneActivityCallWithTimeouts ==
    /\ Len(summarization_run.calls) <= 1
    /\ summarization_run.pc \in {"awaiting_activity", "done"} =>
          /\ Len(summarization_run.calls) = 1
          /\ summarization_run.calls[1].activity = "summarization"
          /\ summarization_run.calls[1].args = <<summarization_run.session_id>>
          /\ {"schedule_to_close_timeout", "heartbeat_timeout", "retry_policy"}
                 \subseteq DOMAIN summarization_run.calls[1]
          /\ TotalSeconds(summarization_run.calls[1].schedule_to_close_timeout)
                 = temporal_env.temporal_schedule_to_close_timeout
          /\ TotalSeconds(summarization_run.calls[1].heartbeat_timeout)
                 = temporal_env.temporal_heartbeat_timeout
          /\ summarization_run.calls[1].retry_policy = "DEFAULT_RETRY_POLICY"
    /\ summarization_run.pc = "done" =>
          /\ summarization_run.activity.status = "completed"
          /\ summarization_run.result = summarization_run.activity.result

C22_Witness ==
    /\ summarization_run.pc = "done"
    /\ summarization_run.session_id = "s2"
    /\ summarization_run.result = Ok(PyNone)
    /\ temporal_env.temporal_schedule_to_close_timeout = 90000
    /\ summarization_run.calls[1].schedule_to_close_timeout.days = 1

====
